---- MODULE Spec2Model ----
(***************************************************************************)
(* Model of rules_engine/engine.py: the Home / BillingPeriod estimation of  *)
(* a balance point and a UA coefficient.                                    *)
(*                                                                          *)
(* Numbers.  The program computes in floats; the model computes exactly.    *)
(* A temperature, a balance point and a sensitivity are integers (a fixed   *)
(* temperature unit), a UA is a reduced rational <<num, den>> with den > 0,  *)
(* and a normalized standard deviation pstdev(uas) / mean(uas) is kept as   *)
(* <<sgn, a, b>>, standing for sgn * sqrt(a / b) with a/b reduced, so that   *)
(* every comparison the program makes is decided without rounding.          *)
(* Products that do not fit a machine integer are formed on digit           *)
(* sequences (Big...).                                                      *)
(***************************************************************************)
EXTENDS Integers, Sequences, FiniteSets, TLC

(***************************************************************************)
(* Exact arithmetic                                                         *)
(***************************************************************************)
\* The element of a set of one element.  An operator that uses an argument
\* more than once binds it this way, so that the argument is evaluated once.
The(S) == CHOOSE v \in S : TRUE

Abs(x0) ==
    The({
    IF x < 0 THEN -x ELSE x
    : x \in {x0}})

Sgn(x0) ==
    The({
    IF x < 0 THEN -1 ELSE IF x = 0 THEN 0 ELSE 1
    : x \in {x0}})

RECURSIVE GcdNat(_, _)
GcdNat(x0, y0) ==
    The({
    IF y = 0 THEN x ELSE GcdNat(y, x % y)
    : x \in {x0}, y \in {y0}})

Gcd(x0, y0) ==
    The({
    GcdNat(Abs(x), Abs(y))
    : x \in {x0}, y \in {y0}})

Lcm(x0, y0) ==
    The({
    (x \div Gcd(x, y)) * y
    : x \in {x0}, y \in {y0}})

\* The reduced rational n / d (d # 0).
Rat(n0, d0) ==
    The({
    LET g == Gcd(n, d)
        s == IF d < 0 THEN -1 ELSE 1
    IN  <<s * (n \div g), s * (d \div g)>>
    : n \in {n0}, d \in {d0}})

RAdd(p0, q0) ==
    The({
    LET l == Lcm(p[2], q[2])
    IN  Rat(p[1] * (l \div p[2]) + q[1] * (l \div q[2]), l)
    : p \in {p0}, q \in {q0}})

RNeg(p0) ==
    The({
    <<-p[1], p[2]>>
    : p \in {p0}})

RSub(p, q) == RAdd(p, RNeg(q))

RMul(p0, q0) ==
    The({
    LET g1 == Gcd(p[1], q[2])
        g2 == Gcd(q[1], p[2])
    IN  Rat((p[1] \div g1) * (q[1] \div g2), (p[2] \div g2) * (q[2] \div g1))
    : p \in {p0}, q \in {q0}})

\* p / q for q # 0
RDiv(p0, q0) ==
    The({
    RMul(p, Rat(q[2], q[1]))
    : p \in {p0}, q \in {q0}})

RAbs(p0) ==
    The({
    <<Abs(p[1]), p[2]>>
    : p \in {p0}})

RInt(n) == <<n, 1>>

(***************************************************************************)
(* Natural numbers of any size: digit sequences, base BigBase, least        *)
(* significant digit first, no leading zero digit (<<>> is 0).              *)
(***************************************************************************)
BigBase == 100 * 100

RECURSIVE BigOf(_)
BigOf(n0) ==
    The({
    IF n = 0 THEN <<>> ELSE <<n % BigBase>> \o BigOf(n \div BigBase)
    : n \in {n0}})

RECURSIVE BigTrim(_)
BigTrim(x0) ==
    The({
    IF x = <<>> THEN <<>>
    ELSE IF x[Len(x)] = 0 THEN BigTrim(SubSeq(x, 1, Len(x) - 1))
    ELSE x
    : x \in {x0}})

RECURSIVE BigAddC(_, _, _)
BigAddC(x0, y0, c0) ==
    The({
    IF x = <<>> /\ y = <<>> THEN (IF c = 0 THEN <<>> ELSE <<c>>)
    ELSE LET a == IF x = <<>> THEN 0 ELSE Head(x)
             b == IF y = <<>> THEN 0 ELSE Head(y)
             s == a + b + c
         IN  <<s % BigBase>> \o
             BigAddC(IF x = <<>> THEN <<>> ELSE Tail(x),
                     IF y = <<>> THEN <<>> ELSE Tail(y), s \div BigBase)
    : x \in {x0}, y \in {y0}, c \in {c0}})

BigAdd(x, y) == BigAddC(x, y, 0)

\* x - y for x >= y
RECURSIVE BigSubB(_, _, _)
BigSubB(x0, y0, b0) ==
    The({
    IF x = <<>> THEN <<>>
    ELSE LET s == Head(x) - (IF y = <<>> THEN 0 ELSE Head(y)) - b
         IN  <<IF s < 0 THEN s + BigBase ELSE s>> \o
             BigSubB(Tail(x), IF y = <<>> THEN <<>> ELSE Tail(y),
                     IF s < 0 THEN 1 ELSE 0)
    : x \in {x0}, y \in {y0}, b \in {b0}})

BigSub(x, y) == BigTrim(BigSubB(x, y, 0))

\* x * d for one digit d
RECURSIVE BigMulD(_, _, _)
BigMulD(x0, d0, c0) ==
    The({
    IF x = <<>> THEN (IF c = 0 THEN <<>> ELSE <<c>>)
    ELSE LET s == Head(x) * d + c
         IN  <<s % BigBase>> \o BigMulD(Tail(x), d, s \div BigBase)
    : x \in {x0}, d \in {d0}, c \in {c0}})

RECURSIVE BigMul(_, _)
BigMul(x0, y0) ==
    The({
    IF y = <<>> \/ x = <<>> THEN <<>>
    ELSE BigAdd(BigTrim(BigMulD(x, Head(y), 0)),
                LET r == BigMul(x, Tail(y))
                IN  IF r = <<>> THEN <<>> ELSE <<0>> \o r)
    : x \in {x0}, y \in {y0}})

\* -1, 0 or 1 as x <, =, > y
RECURSIVE BigCmp(_, _)
BigCmp(x0, y0) ==
    The({
    IF Len(x) # Len(y) THEN (IF Len(x) < Len(y) THEN -1 ELSE 1)
    ELSE IF x = <<>> THEN 0
    ELSE IF x[Len(x)] # y[Len(y)] THEN (IF x[Len(x)] < y[Len(y)] THEN -1 ELSE 1)
    ELSE BigCmp(SubSeq(x, 1, Len(x) - 1), SubSeq(y, 1, Len(y) - 1))
    : x \in {x0}, y \in {y0}})

\* Integers of any size: <<sign, magnitude>>.
ZOf(n0) ==
    The({
    <<Sgn(n), BigOf(Abs(n))>>
    : n \in {n0}})

ZNeg(x0) ==
    The({
    <<-x[1], x[2]>>
    : x \in {x0}})

ZMul(x0, y0) ==
    The({
    <<x[1] * y[1], BigMul(x[2], y[2])>>
    : x \in {x0}, y \in {y0}})

ZAdd(x0, y0) ==
    The({
    IF x[1] = 0 THEN y
    ELSE IF y[1] = 0 THEN x
    ELSE IF x[1] = y[1] THEN <<x[1], BigAdd(x[2], y[2])>>
    ELSE LET c == BigCmp(x[2], y[2])
         IN  IF c = 0 THEN <<0, <<>>>>
             ELSE IF c > 0 THEN <<x[1], BigSub(x[2], y[2])>>
             ELSE <<y[1], BigSub(y[2], x[2])>>
    : x \in {x0}, y \in {y0}})

ZSub(x, y) == ZAdd(x, ZNeg(y))

\* Rationals of any size: <<numerator, denominator>>, denominator > 0, not reduced.
QOf(p0) ==
    The({
    <<ZOf(p[1]), ZOf(p[2])>>
    : p \in {p0}})

QMul(p0, q0) ==
    The({
    <<ZMul(p[1], q[1]), ZMul(p[2], q[2])>>
    : p \in {p0}, q \in {q0}})

QAdd(p0, q0) ==
    The({
    <<ZAdd(ZMul(p[1], q[2]), ZMul(q[1], p[2])), ZMul(p[2], q[2])>>
    : p \in {p0}, q \in {q0}})

QNeg(p0) ==
    The({
    <<ZNeg(p[1]), p[2]>>
    : p \in {p0}})

QSub(p, q) == QAdd(p, QNeg(q))

QSgn(p) == p[1][1]

\* -1, 0 or 1 as p <, =, > q, for reduced rationals p and q
RCmp(p, q) == QSgn(QSub(QOf(p), QOf(q)))

RLess(p, q) == RCmp(p, q) < 0

(***************************************************************************)
(* Square roots.  A value sgn * sqrt(a / b) is <<sgn, a, b>>; sgn = 0 goes   *)
(* with a = 0, b = 1.  The sign of an expression in two such values and a    *)
(* rational is found by squaring.                                           *)
(***************************************************************************)
QZero == QOf(<<0, 1>>)

QFour == QOf(<<4, 1>>)

\* sign of sqrt(a) + sqrt(b) - d, for a, b >= 0
SgnSum(a0, b0, d0) ==
    The({
    IF QSgn(d) <= 0
    THEN (IF QSgn(a) = 0 /\ QSgn(b) = 0 /\ QSgn(d) = 0 THEN 0 ELSE 1)
    ELSE LET r == QSub(QSub(QMul(d, d), a), b)
         IN  IF QSgn(r) < 0 THEN 1
             ELSE QSgn(QSub(QMul(QFour, QMul(a, b)), QMul(r, r)))
    : a \in {a0}, b \in {b0}, d \in {d0}})

\* sign of sqrt(a) - sqrt(b) - d, for a, b >= 0 and d >= 0
SgnDiffNonNeg(a0, b0, d0) ==
    The({
    LET r == QSub(QSub(a, b), QMul(d, d))
    IN  IF QSgn(r) < 0 THEN -1
        ELSE QSgn(QSub(QMul(r, r), QMul(QFour, QMul(QMul(d, d), b))))
    : a \in {a0}, b \in {b0}, d \in {d0}})

\* sign of sqrt(a) - sqrt(b) - d, for a, b >= 0
SgnDiff(a0, b0, d0) ==
    The({
    IF QSgn(d) >= 0 THEN SgnDiffNonNeg(a, b, d)
    ELSE -SgnDiffNonNeg(b, a, QNeg(d))
    : a \in {a0}, b \in {b0}, d \in {d0}})

\* sign of x - y - d, for x and y of the form <<sgn, a, b>> and d a rational
SgnExpr(x0, y0, d0) ==
    The({
    LET a == QOf(<<x[2], x[3]>>)
        b == QOf(<<y[2], y[3]>>)
        q == QOf(d)
    IN  CASE x[1] >= 0 /\ y[1] <= 0 -> SgnSum(a, b, q)
          [] x[1] < 0 /\ y[1] > 0 -> -SgnSum(a, b, QNeg(q))
          [] x[1] >= 0 /\ y[1] > 0 -> SgnDiff(a, b, q)
          [] x[1] < 0 /\ y[1] <= 0 -> -SgnDiff(a, b, QNeg(q))
    : x \in {x0}, y \in {y0}, d \in {d0}})

SqrtZero == <<0, 0, 1>>

\* x < y
SqrtLess(x, y) == SgnExpr(x, y, <<0, 1>>) < 0

\* x > r, r a rational
SqrtGreaterRat(x, r) == SgnExpr(x, SqrtZero, r) > 0

\* x - y < r, r a rational
SqrtDiffLessRat(x, y, r) == SgnExpr(x, y, r) < 0

(***************************************************************************)
(* Sequences                                                                *)
(***************************************************************************)
Range(f) == {f[i] : i \in DOMAIN f}

\* list.pop(i) leaves the list without its i-th element (1-based here)
RemoveAt(seq, i) == SubSeq(seq, 1, i - 1) \o SubSeq(seq, i + 1, Len(seq))

RECURSIVE SeqsUpTo(_, _)
SeqsUpTo(S, n) ==
    IF n = 0 THEN {<<>>}
    ELSE LET shorter == SeqsUpTo(S, n - 1)
         IN  shorter \cup {Append(q, x) : q \in {r \in shorter : Len(r) = n - 1}, x \in S}

(***************************************************************************)
(* statistics.mean and statistics.pstdev, on lists of rationals             *)
(***************************************************************************)
RECURSIVE RSum(_)
RSum(us0) ==
    The({
    IF us = <<>> THEN <<0, 1>> ELSE RAdd(Head(us), RSum(Tail(us)))
    : us \in {us0}})

\* sts.mean(us), for a list that is not empty
mean(us0) ==
    The({
    RDiv(RSum(us), RInt(Len(us)))
    : us \in {us0}})

RECURSIVE LcmDen(_)
LcmDen(us0) ==
    The({
    IF us = <<>> THEN 1 ELSE Lcm(Head(us)[2], LcmDen(Tail(us)))
    : us \in {us0}})

RECURSIVE GcdAll(_)
GcdAll(ns0) ==
    The({
    IF ns = <<>> THEN 0 ELSE Gcd(Head(ns), GcdAll(Tail(ns)))
    : ns \in {ns0}})

RECURSIVE ISum(_)
ISum(ns0) ==
    The({
    IF ns = <<>> THEN 0 ELSE Head(ns) + ISum(Tail(ns))
    : ns \in {ns0}})

\* The list us times a common positive factor that makes it a list of
\* integers with no common divisor.
Scaled(us0) ==
    The({
    LET l == LcmDen(us)
        ns == [i \in DOMAIN us |-> us[i][1] * (l \div us[i][2])]
        g == GcdAll(ns)
    IN  [i \in DOMAIN ns |-> IF g = 0 THEN 0 ELSE ns[i] \div g]
    : us \in {us0}})

\* sts.pstdev(us) / sts.mean(us) as <<sgn, a, b>>, for a list that is not
\* empty and whose mean is not 0.  With m the list scaled to integers,
\* S its sum and n its length, pstdev / mean = sqrt(n * sum(m^2) - S^2) / S.
pstdev_over_mean(us0) ==
    The({
    LET m == Scaled(us)
        S == ISum(m)
        A == Len(m) * ISum([i \in DOMAIN m |-> m[i] * m[i]]) - S * S
        r == Rat(A, S * S)
    IN  IF A = 0 THEN SqrtZero ELSE <<Sgn(S), r[1], r[2]>>
    : us \in {us0}})

(***************************************************************************)
(* hdd, period_hdd                                                          *)
(***************************************************************************)
hdd(avg_temp, bp) ==
    LET diff == bp - avg_temp
    IN  IF diff < 0 THEN 0 ELSE diff

RECURSIVE period_hdd(_, _)
period_hdd(avg_temps, bp) ==
    IF avg_temps = <<>> THEN 0
    ELSE hdd(Head(avg_temps), bp) + period_hdd(Tail(avg_temps), bp)

(***************************************************************************)
(* FuelType: BTU per usage                                                  *)
(***************************************************************************)
GAS == 100000

OIL == 139600

PROPANE == 91333

FuelType == {"GAS", "OIL", "PROPANE"}

FuelTypeValue(f) ==
    CASE f = "GAS" -> GAS
      [] f = "OIL" -> OIL
      [] f = "PROPANE" -> PROPANE

HoursPerDay == 24

(***************************************************************************)
(* Bounds and input choices                                                 *)
(***************************************************************************)
\* most billing periods handed to initialize_billing_periods
MaxBills == 3

\* <<temps[i], usages[i]>>: the daily average temperatures and the usage of
\* one billing period
PeriodChoices == {<<<<0, 1>>, 0>>, <<<<0, 2>>, 1>>, <<<<0, 4>>, 2>>}

AvgNonHeatingChoices == {0}

FuelChoices == {"GAS"}

EfficiencyChoices == {<<19, 20>>}

\* <<initial_balance_point, thermostat_set_point>>
HomeChoices == {<<0, 6>>, <<3, 6>>, <<4, 6>>, <<7, 6>>}

SensitivityChoices == {1}

\* calculate_balance_point_and_ua arguments
CalculateChoices ==
    { [initial_balance_point_sensitivity |-> 1, stdev_pct_max |-> <<1, 10>>,
       max_stdev_pct_diff |-> <<2, 5>>, next_balance_point_sensitivity |-> 1],
      [initial_balance_point_sensitivity |-> 2, stdev_pct_max |-> <<1, 10>>,
       max_stdev_pct_diff |-> <<1, 100>>, next_balance_point_sensitivity |-> 1] }

\* bps_to_remove, as the set of the periods in it
RemoveChoices == {{}, {1}}

(***************************************************************************)
(* BillingPeriod                                                            *)
(***************************************************************************)
\* BillingPeriod.calculate_partial_ua
calculate_partial_ua(days, avg_heating_usage, fuel, efficiency) ==
    RDiv(RMul(RMul(RMul(RInt(days), avg_heating_usage), RInt(FuelTypeValue(fuel))),
              efficiency),
         RInt(HoursPerDay))

\* BillingPeriod.__init__ raises ZeroDivisionError at usage / days or at
\* partial_ua / total_hdd
BillingPeriodRaises(avg_temps, bp) ==
    Len(avg_temps) = 0 \/ period_hdd(avg_temps, bp) = 0

\* BillingPeriod.__init__ for a home with the given fields; id stands for
\* the identity of the object
BillingPeriod(id, avg_temps, usage, non_heating, bp, fuel, efficiency) ==
    LET days == Len(avg_temps)
        avg_heating_usage == RSub(Rat(usage, days), RInt(non_heating))
        total_hdd == period_hdd(avg_temps, bp)
        partial_ua == calculate_partial_ua(days, avg_heating_usage, fuel, efficiency)
    IN  [id |-> id, avg_temps |-> avg_temps, usage |-> usage, days |-> days,
         avg_heating_usage |-> avg_heating_usage, total_hdd |-> total_hdd,
         partial_ua |-> partial_ua, ua |-> RDiv(partial_ua, RInt(total_hdd))]

(***************************************************************************)
(* State                                                                    *)
(***************************************************************************)
VARIABLES
    \* Home
    fuel_type, heat_sys_efficiency, balance_point, thermostat_set_point,
    avg_non_heating_usage, bills, uas, avg_ua, stdev_pct,
    attrs,                  \* the attributes of the Home that have been set
    \* the call in progress
    pc,                     \* "idle", "refine" (loop of refine_balance_point),
                            \* "outlier" (loop of calculate_balance_point_and_ua)
    op,                     \* the public method running, or that ran last
    args,                   \* its arguments
    directions_to_check, balance_point_sensitivity,
    ret,                    \* how the last call ended: "ok" or the exception
    \* history
    initial_balance_point,  \* the argument of Home.__init__
    entry,                  \* the Home as the running (or last) call found it
    prev,                   \* method, arguments and ending of the call before
    refine_entry,           \* balance point and stdev_pct on entering refine_balance_point
    excluded,               \* ids of the periods whose exclusion this run committed
    body_runs,              \* times the outlier loop body ran in this run
    restored                \* the last step restored a tentatively excluded period

home == <<fuel_type, heat_sys_efficiency, balance_point, thermostat_set_point,
          avg_non_heating_usage, bills, uas, avg_ua, stdev_pct, attrs>>

frame == <<pc, op, args, directions_to_check, balance_point_sensitivity, ret>>

history == <<initial_balance_point, entry, prev, refine_entry, excluded,
             body_runs, restored>>

vars == <<home, frame, history>>

\* the fields a call can leave changed
Snapshot ==
    [balance_point |-> balance_point, avg_ua |-> avg_ua, stdev_pct |-> stdev_pct,
     bills |-> bills, uas |-> uas]

NoArgs == [none |-> TRUE]

RZero == <<0, 1>>

\* Home.__init__; an attribute that is not set yet (see attrs) holds a
\* placeholder
Init ==
    /\ fuel_type \in FuelChoices
    /\ heat_sys_efficiency \in EfficiencyChoices
    /\ \E h \in HomeChoices :
         /\ balance_point = h[1]
         /\ initial_balance_point = h[1]
         /\ thermostat_set_point = h[2]
    /\ avg_non_heating_usage = 0
    /\ bills = <<>>
    /\ uas = <<>>
    /\ avg_ua = RZero
    /\ stdev_pct = SqrtZero
    /\ attrs = {}
    /\ pc = "idle"
    /\ op = "__init__"
    /\ args = NoArgs
    /\ directions_to_check = <<>>
    /\ balance_point_sensitivity = 0
    /\ ret = "ok"
    /\ entry = [balance_point |-> balance_point, avg_ua |-> RZero,
                stdev_pct |-> SqrtZero, bills |-> <<>>, uas |-> <<>>]
    /\ prev = [op |-> "none", args |-> NoArgs, ret |-> "ok"]
    /\ refine_entry = [balance_point |-> balance_point, stdev_pct |-> SqrtZero]
    /\ excluded = {}
    /\ body_runs = 0
    /\ restored = FALSE

(***************************************************************************)
(* Calls.  A public method starts when no call is in progress.              *)
(***************************************************************************)
CanCall == pc = "idle"

\* bookkeeping at the start of a call of method m with arguments a
Begin(m, a) ==
    /\ entry' = Snapshot
    /\ prev' = [op |-> op, args |-> args, ret |-> ret]
    /\ op' = m
    /\ args' = a
    /\ excluded' = {}
    /\ body_runs' = 0
    /\ restored' = FALSE
    /\ UNCHANGED initial_balance_point

\* the call ends, normally ("ok") or with an exception
End(how) ==
    /\ pc' = "idle"
    /\ ret' = how

\* Home.initialize_billing_periods(temps, usages, avg_non_heating_usage);
\* batch[i] is <<temps[i], usages[i]>>.  The periods before the first one
\* whose construction raises are appended.
initialize_billing_periods(batch, non_heating) ==
    LET bad == {i \in DOMAIN batch : BillingPeriodRaises(batch[i][1], balance_point)}
        built == IF bad = {} THEN Len(batch)
                 ELSE (CHOOSE i \in bad : \A j \in bad : i <= j) - 1
    IN  /\ CanCall
        /\ "bills" \notin attrs
        /\ Begin("initialize_billing_periods",
                 [batch |-> batch, avg_non_heating_usage |-> non_heating])
        /\ avg_non_heating_usage' = non_heating
        /\ bills' = [i \in 1..built |->
                       BillingPeriod(i, batch[i][1], batch[i][2], non_heating,
                                     balance_point, fuel_type, heat_sys_efficiency)]
        /\ attrs' = attrs \cup {"bills"}
        /\ End(IF bad = {} THEN "ok" ELSE "ZeroDivisionError")
        /\ UNCHANGED <<fuel_type, heat_sys_efficiency, balance_point,
                       thermostat_set_point, uas, avg_ua, stdev_pct,
                       directions_to_check, balance_point_sensitivity,
                       refine_entry>>

InitializeBillingPeriods ==
    \E batch \in SeqsUpTo(PeriodChoices, MaxBills),
       non_heating \in AvgNonHeatingChoices :
        initialize_billing_periods(batch, non_heating)

(***************************************************************************)
(* Home.refine_balance_point: one action per way through the loop body      *)
(***************************************************************************)
\* the call reaches the loop of refine_balance_point
EnterRefine(sensitivity) ==
    /\ pc' = "refine"
    /\ directions_to_check' = <<1, -1>>
    /\ balance_point_sensitivity' = sensitivity
    /\ refine_entry' = [balance_point |-> balance_point', stdev_pct |-> stdev_pct']

\* refine_balance_point returns: to the loop of calculate_balance_point_and_ua,
\* or to the caller of the public method
ReturnFromRefine ==
    /\ pc' = IF op = "calculate_balance_point_and_ua" THEN "outlier" ELSE "idle"
    /\ ret' = IF op = "calculate_balance_point_and_ua" THEN ret ELSE "ok"
    /\ directions_to_check' = <<>>

bp_i == balance_point + directions_to_check[1] * balance_point_sensitivity

period_hdds_i == [n \in DOMAIN bills |-> period_hdd(bills[n].avg_temps, bp_i)]

uas_i == [n \in DOMAIN bills |-> RDiv(bills[n].partial_ua, RInt(period_hdds_i[n]))]

\* as TrialRaises, with the division by zero caught and the call ended quietly
TrialRaises_Swallowed ==
    IF "bills" \notin attrs THEN "AttributeError"
    ELSE IF \E n \in DOMAIN bills : period_hdds_i[n] = 0 THEN "ok"
    ELSE IF bills = <<>> THEN "StatisticsError"
    ELSE IF mean(uas_i) = RZero THEN "ZeroDivisionError"
    ELSE IF "stdev_pct" \notin attrs THEN "AttributeError"
    ELSE "none"

\* the exception the trial at bp_i raises before it compares, or "none"
TrialRaises ==
    IF "bills" \notin attrs THEN "AttributeError"
    ELSE IF \E n \in DOMAIN bills : period_hdds_i[n] = 0 THEN "ZeroDivisionError"
    ELSE IF bills = <<>> THEN "StatisticsError"
    ELSE IF mean(uas_i) = RZero THEN "ZeroDivisionError"
    ELSE IF "stdev_pct" \notin attrs THEN "AttributeError"
    ELSE "none"

\* as Improves, with <= for <
Improves_OrEqual(stdev_pct_i) == ~SqrtLess(stdev_pct, stdev_pct_i)

\* stdev_pct_i < self.stdev_pct
Improves(stdev_pct_i) == SqrtLess(stdev_pct_i, stdev_pct)

\* as AboveSetPoint, one unit late
AboveSetPoint_OffByOne == bp_i > thermostat_set_point + 1

\* bp_i > self.thermostat_set_point
AboveSetPoint == bp_i > thermostat_set_point

\* as Resynced, without the ua
Resynced_HddOnly(periods, hdds, us) ==
    [n \in DOMAIN periods |-> [periods[n] EXCEPT !.total_hdd = hdds[n]]]

\* the periods after the loop that stores the trial's total_hdd and ua
Resynced(periods, hdds, us) ==
    [n \in DOMAIN periods |->
        [periods[n] EXCEPT !.total_hdd = hdds[n], !.ua = us[n]]]

\* as DropFirst, without the pop
DropFirst_Keep(directions) == directions

\* directions_to_check after pop(0)
DropFirst(directions) == Tail(directions)

\* directions_to_check after an accepted trial: pop(-1) while both are left
DropOther(directions) ==
    IF Len(directions) = 2 THEN SubSeq(directions, 1, 1) ELSE directions

InRefine == pc = "refine" /\ directions_to_check # <<>>

\* if bp_i > self.thermostat_set_point: break
RefineBreak ==
    /\ InRefine
    /\ AboveSetPoint
    /\ ReturnFromRefine
    /\ UNCHANGED <<home, op, args, balance_point_sensitivity, history>>

RefineRaise ==
    /\ InRefine
    /\ ~AboveSetPoint
    /\ TrialRaises # "none"
    /\ End(TrialRaises)
    /\ UNCHANGED <<home, op, args, directions_to_check, balance_point_sensitivity,
                   history>>

\* the trial improves: it is committed, and the other direction is dropped
RefineAccept ==
    /\ InRefine
    /\ ~AboveSetPoint
    /\ TrialRaises = "none"
    /\ Improves(pstdev_over_mean(uas_i))
    /\ balance_point' = bp_i
    /\ avg_ua' = mean(uas_i)
    /\ stdev_pct' = pstdev_over_mean(uas_i)
    /\ bills' = Resynced(bills, period_hdds_i, uas_i)
    /\ directions_to_check' = DropOther(directions_to_check)
    /\ UNCHANGED <<fuel_type, heat_sys_efficiency, thermostat_set_point,
                   avg_non_heating_usage, uas, attrs, pc, op, args,
                   balance_point_sensitivity, ret, history>>

\* the trial does not improve: its direction is dropped
RefineReject ==
    /\ InRefine
    /\ ~AboveSetPoint
    /\ TrialRaises = "none"
    /\ ~Improves(pstdev_over_mean(uas_i))
    /\ IF DropFirst(directions_to_check) = <<>>
       THEN ReturnFromRefine
       ELSE /\ directions_to_check' = DropFirst(directions_to_check)
            /\ UNCHANGED <<pc, ret>>
    /\ UNCHANGED <<home, op, args, balance_point_sensitivity, history>>

\* Home.refine_balance_point(balance_point_sensitivity) called by itself
RefineCall ==
    \E sensitivity \in SensitivityChoices :
        /\ CanCall
        /\ Begin("refine_balance_point", [balance_point_sensitivity |-> sensitivity])
        /\ UNCHANGED <<home, ret>>
        /\ EnterRefine(sensitivity)

(***************************************************************************)
(* Home.calculate_balance_point_and_ua                                      *)
(***************************************************************************)
\* [bp.ua for bp in periods]
UasOf(periods) == [n \in DOMAIN periods |-> periods[n].ua]

\* lines 134-137: the aggregates of the retained periods, then the first
\* refine_balance_point
CalculateCall ==
    \E a \in CalculateChoices :
        /\ CanCall
        /\ Begin("calculate_balance_point_and_ua", a)
        /\ UNCHANGED <<fuel_type, heat_sys_efficiency, balance_point,
                       thermostat_set_point, avg_non_heating_usage, bills>>
        /\ IF "bills" \notin attrs
           THEN /\ End("AttributeError")
                /\ UNCHANGED <<uas, avg_ua, stdev_pct, attrs, directions_to_check,
                               balance_point_sensitivity, refine_entry>>
           ELSE /\ uas' = UasOf(bills)
                /\ IF bills = <<>>
                   THEN /\ End("StatisticsError")
                        /\ attrs' = attrs \cup {"uas"}
                        /\ UNCHANGED <<avg_ua, stdev_pct, directions_to_check,
                                       balance_point_sensitivity, refine_entry>>
                   ELSE /\ avg_ua' = mean(UasOf(bills))
                        /\ IF mean(UasOf(bills)) = RZero
                           THEN /\ End("ZeroDivisionError")
                                /\ attrs' = attrs \cup {"uas", "avg_ua"}
                                /\ UNCHANGED <<stdev_pct, directions_to_check,
                                               balance_point_sensitivity,
                                               refine_entry>>
                           ELSE /\ stdev_pct' = pstdev_over_mean(UasOf(bills))
                                /\ attrs' = attrs \cup {"uas", "avg_ua", "stdev_pct"}
                                /\ ret' = ret
                                /\ EnterRefine(a.initial_balance_point_sensitivity)

InOutlierLoop == pc = "outlier"

\* while self.stdev_pct > stdev_pct_max
LoopTest == SqrtGreaterRat(stdev_pct, args.stdev_pct_max)

\* np.argmax: the first index of the greatest value
argmax(values) ==
    CHOOSE i \in DOMAIN values :
        /\ \A j \in DOMAIN values : ~RLess(values[i], values[j])
        /\ \A j \in DOMAIN values : j < i => RLess(values[j], values[i])

biggest_outlier_idx ==
    argmax([n \in DOMAIN bills |-> RAbs(RSub(bills[n].ua, avg_ua))])

outlier == bills[biggest_outlier_idx]

\* self.bills after self.bills.pop(biggest_outlier_idx)
popped == RemoveAt(bills, biggest_outlier_idx)

\* the exception lines 145-146 raise, or "none"
ExclusionRaises ==
    IF popped = <<>> THEN "StatisticsError"
    ELSE IF mean(UasOf(popped)) = RZero THEN "ZeroDivisionError"
    ELSE "none"

\* self.stdev_pct - stdev_pct_i < max_stdev_pct_diff
SmallChange ==
    SqrtDiffLessRat(stdev_pct, pstdev_over_mean(UasOf(popped)), args.max_stdev_pct_diff)

\* as RestoreOutlier, putting back the list the call began with
RestoreOutlier_FromEntry == entry.bills

\* where the restored period goes: self.bills.append(outlier)
RestoreOutlier == Append(popped, outlier)

\* the loop test fails: the method returns
OutlierExit ==
    /\ InOutlierLoop
    /\ ~LoopTest
    /\ End("ok")
    /\ UNCHANGED <<home, op, args, directions_to_check, balance_point_sensitivity,
                   history>>

\* the statistics of the remaining periods raise; the outlier stays popped
OutlierRaise ==
    /\ InOutlierLoop
    /\ LoopTest
    /\ ExclusionRaises # "none"
    /\ bills' = popped
    /\ body_runs' = body_runs + 1
    /\ End(ExclusionRaises)
    /\ UNCHANGED <<fuel_type, heat_sys_efficiency, balance_point,
                   thermostat_set_point, avg_non_heating_usage, uas, avg_ua,
                   stdev_pct, attrs, op, args, directions_to_check,
                   balance_point_sensitivity, initial_balance_point, entry, prev,
                   refine_entry, excluded, restored>>

\* a small enough change: the outlier is put back and the loop is left
OutlierRestore ==
    /\ InOutlierLoop
    /\ LoopTest
    /\ ExclusionRaises = "none"
    /\ SmallChange
    /\ bills' = RestoreOutlier
    /\ body_runs' = body_runs + 1
    /\ restored' = TRUE
    /\ End("ok")
    /\ UNCHANGED <<fuel_type, heat_sys_efficiency, balance_point,
                   thermostat_set_point, avg_non_heating_usage, uas, avg_ua,
                   stdev_pct, attrs, op, args, directions_to_check,
                   balance_point_sensitivity, initial_balance_point, entry, prev,
                   refine_entry, excluded>>

\* the exclusion is committed and the balance point refined again
OutlierCommit ==
    /\ InOutlierLoop
    /\ LoopTest
    /\ ExclusionRaises = "none"
    /\ ~SmallChange
    /\ bills' = popped
    /\ uas' = UasOf(popped)
    /\ avg_ua' = mean(UasOf(popped))
    /\ stdev_pct' = pstdev_over_mean(UasOf(popped))
    /\ excluded' = excluded \cup {outlier.id}
    /\ body_runs' = body_runs + 1
    /\ UNCHANGED <<fuel_type, heat_sys_efficiency, balance_point,
                   thermostat_set_point, avg_non_heating_usage, attrs, op, args,
                   ret, initial_balance_point, entry, prev, restored>>
    /\ EnterRefine(args.next_balance_point_sensitivity)

(***************************************************************************)
(* Home.calculate_balance_point_and_ua_customizable                         *)
(***************************************************************************)
\* [bp for bp in self.bills if bp not in bps_to_remove]; a period is in the
\* list when it is one of its objects
RECURSIVE Without(_, _)
Without(periods, ids) ==
    IF periods = <<>> THEN <<>>
    ELSE (IF Head(periods).id \in ids THEN <<>> ELSE <<Head(periods)>>)
         \o Without(Tail(periods), ids)

CustomizableCall ==
    \E bps_to_remove \in RemoveChoices,
       sensitivity \in SensitivityChoices :
        LET customized_bills == Without(bills, bps_to_remove)
        IN  /\ CanCall
            /\ Begin("calculate_balance_point_and_ua_customizable",
                     [bps_to_remove |-> bps_to_remove,
                      balance_point_sensitivity |-> sensitivity])
            /\ UNCHANGED <<fuel_type, heat_sys_efficiency, balance_point,
                           thermostat_set_point, avg_non_heating_usage>>
            /\ IF "bills" \notin attrs
               THEN /\ End("AttributeError")
                    /\ UNCHANGED <<bills, uas, avg_ua, stdev_pct, attrs,
                                   directions_to_check, balance_point_sensitivity,
                                   refine_entry>>
               ELSE /\ uas' = UasOf(customized_bills)
                    /\ IF customized_bills = <<>>
                       THEN /\ End("StatisticsError")
                            /\ attrs' = attrs \cup {"uas"}
                            /\ UNCHANGED <<bills, avg_ua, stdev_pct, directions_to_check,
                                           balance_point_sensitivity, refine_entry>>
                       ELSE /\ avg_ua' = mean(UasOf(customized_bills))
                            /\ IF mean(UasOf(customized_bills)) = RZero
                               THEN /\ End("ZeroDivisionError")
                                    /\ attrs' = attrs \cup {"uas", "avg_ua"}
                                    /\ UNCHANGED <<bills, stdev_pct, directions_to_check,
                                                   balance_point_sensitivity,
                                                   refine_entry>>
                               ELSE /\ stdev_pct' = pstdev_over_mean(UasOf(customized_bills))
                                    /\ attrs' = attrs \cup {"uas", "avg_ua", "stdev_pct"}
                                    /\ bills' = customized_bills
                                    /\ ret' = ret
                                    /\ EnterRefine(sensitivity)

Next ==
    \/ InitializeBillingPeriods
    \/ CalculateCall
    \/ CustomizableCall
    \/ RefineCall
    \/ RefineBreak
    \/ RefineRaise
    \/ RefineAccept
    \/ RefineReject
    \/ OutlierExit
    \/ OutlierRaise
    \/ OutlierRestore
    \/ OutlierCommit

Spec == Init /\ [][Next]_vars

\* A step of a call in progress.  The methods run to completion once
\* called (synchronous, single-threaded code), so a call in progress always
\* takes its next step.
Step ==
    \/ RefineBreak
    \/ RefineRaise
    \/ RefineAccept
    \/ RefineReject
    \/ OutlierExit
    \/ OutlierRaise
    \/ OutlierRestore
    \/ OutlierCommit

\* One calculate_balance_point_and_ua on a Home whose periods were just
\* initialized: a call that has begun goes on to its next step.
FirstCalculate == op = "initialize_billing_periods" /\ CalculateCall

NextOneCall == InitializeBillingPeriods \/ FirstCalculate \/ Step

FairSpec == Init /\ [][NextOneCall]_vars /\ WF_vars(Step)

(***************************************************************************)
(* Properties                                                               *)
(***************************************************************************)
Methods ==
    {"initialize_billing_periods", "refine_balance_point",
     "calculate_balance_point_and_ua", "calculate_balance_point_and_ua_customizable"}

\* method m has returned normally and nothing was called since
Returned(m) == pc = "idle" /\ ret = "ok" /\ op = m

BillIds(periods) == {periods[n].id : n \in DOMAIN periods}

\* C1 as claimed: after any call on a Home, construction included, and for
\* every initial balance point, balance_point is not greater than
\* thermostat_set_point.
C1_NeverAboveSetPoint == balance_point <= thermostat_set_point

\* C1, amended: a Home constructed with initial_balance_point not greater than
\* thermostat_set_point keeps balance_point not greater than
\* thermostat_set_point through every call.
C1_BoundedWhenConstructedBelow ==
    initial_balance_point <= thermostat_set_point
        => balance_point <= thermostat_set_point

\* a call has raised the balance point of such a Home up to the set point
C1_Witness ==
    /\ pc = "idle"
    /\ initial_balance_point < thermostat_set_point
    /\ balance_point = thermostat_set_point

InSync(periods, bp) ==
    \A n \in DOMAIN periods :
        /\ periods[n].total_hdd = period_hdd(periods[n].avg_temps, bp)
        /\ periods[n].total_hdd # 0
        /\ periods[n].ua = RDiv(periods[n].partial_ua, RInt(periods[n].total_hdd))

\* C2: whenever one of the four methods returns, every period in bills has
\* total_hdd = period_hdd(avg_temps, balance_point) and ua = partial_ua / total_hdd.
C2_RetainedPeriodsInSync ==
    (pc = "idle" /\ ret = "ok" /\ op \in Methods) => InSync(bills, balance_point)

\* calculate_balance_point_and_ua returned after accepted search steps, a
\* committed exclusion and a restored one
C2_Witness ==
    /\ Returned("calculate_balance_point_and_ua")
    /\ balance_point # entry.balance_point
    /\ excluded # {}
    /\ restored

\* C3 as claimed: a second calculate_balance_point_and_ua with the same
\* arguments, right after a first that returned normally, leaves
\* balance_point, avg_ua, stdev_pct and the set of retained periods as the
\* first call left them.
C3_Idempotent ==
    ( /\ Returned("calculate_balance_point_and_ua")
      /\ prev = [op |-> "calculate_balance_point_and_ua", args |-> args, ret |-> "ok"] )
    => /\ balance_point = entry.balance_point
       /\ avg_ua = entry.avg_ua
       /\ stdev_pct = entry.stdev_pct
       /\ BillIds(bills) = BillIds(entry.bills)

\* the UAs of the retained periods at balance point c
UasAt(c) ==
    [n \in DOMAIN bills |->
        RDiv(bills[n].partial_ua, RInt(period_hdd(bills[n].avg_temps, c)))]

\* the spread at c is defined: every retained period has a total HDD that
\* is not 0, and the mean UA is not 0
Defined(c) ==
    /\ bills # <<>>
    /\ \A n \in DOMAIN bills : period_hdd(bills[n].avg_temps, c) # 0
    /\ mean(UasAt(c)) # RZero

\* c is a candidate of the search: not above the set point, with a total
\* HDD that is not 0 for every retained period
Candidate(c) == c <= thermostat_set_point /\ Defined(c)

SpreadAt(c) == pstdev_over_mean(UasAt(c))

\* refine_balance_point has just returned
RefineReturned ==
    \/ pc = "outlier"
    \/ Returned("refine_balance_point")
    \/ Returned("calculate_balance_point_and_ua_customizable")

\* C4 as claimed: refine_balance_point(s), entered at b with stdev_pct the
\* spread at b, returns with a stdev_pct no greater than the spread at b, at
\* b + s and at b - s, for each of them that is a candidate.
C4_ChoosesMinimum ==
    ( /\ RefineReturned
      /\ "stdev_pct" \in attrs
      /\ Defined(refine_entry.balance_point)
      /\ refine_entry.stdev_pct = SpreadAt(refine_entry.balance_point) )
    => \A c \in {refine_entry.balance_point,
                 refine_entry.balance_point + balance_point_sensitivity,
                 refine_entry.balance_point - balance_point_sensitivity} :
           Candidate(c) => ~SqrtLess(SpreadAt(c), stdev_pct)

\* C5: a call of calculate_balance_point_and_ua (of any method) with a
\* positive sensitivity ends, by returning or raising, and the body of the
\* outlier loop runs at most once for each period retained when the call began.
C5_Terminates ==
    /\ [](body_runs <= Len(entry.bills))
    /\ (pc # "idle") ~> (pc = "idle")

\* a run that refined the balance point and ran the loop body twice has ended
C5_Witness ==
    /\ pc = "idle"
    /\ op = "calculate_balance_point_and_ua"
    /\ body_runs >= 2
    /\ balance_point # entry.balance_point

\* C6: a period whose exclusion was committed in a run of
\* calculate_balance_point_and_ua is in bills in no later state of the run.
C6_ExcludedNeverReturns == \A n \in DOMAIN bills : bills[n].id \notin excluded

\* an exclusion was committed and, later in the run, another one restored
C6_Witness ==
    /\ op = "calculate_balance_point_and_ua"
    /\ excluded # {}
    /\ restored

\* C7: in refine_balance_point a step either leaves balance_point and
\* stdev_pct alone or commits a stdev_pct strictly lower than the current
\* one, so stdev_pct never rises above its value on entry.
C7_StepsStrictlyImprove ==
    [][pc = "refine" =>
          \/ balance_point' = balance_point /\ stdev_pct' = stdev_pct
          \/ /\ SqrtLess(stdev_pct', stdev_pct)
             /\ ~SqrtLess(refine_entry.stdev_pct, stdev_pct')]_vars

\* two trials were committed in one refine_balance_point
C7_Witness ==
    /\ pc = "refine"
    /\ balance_point = refine_entry.balance_point
                         + 2 * directions_to_check[1] * balance_point_sensitivity
    /\ SqrtLess(stdev_pct, refine_entry.stdev_pct)

\* the trial at bp_i gives a retained period a total HDD of 0
ZeroHddTrial ==
    /\ InRefine
    /\ ~AboveSetPoint
    /\ "bills" \in attrs
    /\ \E n \in DOMAIN bills : period_hdds_i[n] = 0

\* C8: a total HDD of 0, at the construction of a BillingPeriod or at a
\* trial of refine_balance_point, ends the call with ZeroDivisionError; no
\* period gets a ua from a total HDD of 0, and balance_point, avg_ua,
\* stdev_pct and (at a trial) the retained periods stay as they were.
C8_ZeroHddRaises ==
    [][ /\ ZeroHddTrial =>
            /\ pc' = "idle"
            /\ ret' = "ZeroDivisionError"
            /\ UNCHANGED <<balance_point, avg_ua, stdev_pct, bills>>
        /\ ( /\ op' = "initialize_billing_periods"
             /\ op # "initialize_billing_periods"
             /\ \E i \in DOMAIN args'.batch :
                    period_hdd(args'.batch[i][1], balance_point) = 0 ) =>
            /\ pc' = "idle"
            /\ ret' = "ZeroDivisionError"
            /\ \A n \in DOMAIN bills' : bills'[n].total_hdd # 0
            /\ UNCHANGED <<balance_point, avg_ua, stdev_pct>> ]_vars

\* a trial with a total HDD of 0 has raised after another one was committed
C8_Witness ==
    /\ pc = "idle"
    /\ ret = "ZeroDivisionError"
    /\ op # "initialize_billing_periods"
    /\ directions_to_check # <<>>
    /\ \E n \in DOMAIN bills : period_hdds_i[n] = 0
    /\ balance_point # refine_entry.balance_point

\* C9 as claimed: when the tentative exclusion is restored, the Home is as
\* it was just before it: balance_point, avg_ua, stdev_pct and bills, the
\* same periods at the same positions.
C9_RestoreLeavesHomeAsBefore ==
    [][(pc = "outlier" /\ restored') =>
          UNCHANGED <<balance_point, avg_ua, stdev_pct, bills>>]_vars

\* C10 as claimed: when calculate_balance_point_and_ua returns normally,
\* avg_ua and stdev_pct are the mean and pstdev / mean of the current ua of
\* the periods in bills, and uas lists those ua.
C10_AggregatesDescribeRetained ==
    Returned("calculate_balance_point_and_ua") =>
        /\ avg_ua = mean(UasOf(bills))
        /\ stdev_pct = pstdev_over_mean(UasOf(bills))
        /\ uas = UasOf(bills)

====
